---- MODULE Spec2Model ----
(***************************************************************************)
(* A model of PDFCombine.py: the page list of MainWindow (add_pdf,         *)
(* remove_selected, move_up, move_down), the Direct Text Editor dialog     *)
(* (add_direct_text_item, the context menu of a DirectTextItem,            *)
(* getDirectTexts, accept / reject) and export_pdf.                        *)
(*                                                                         *)
(* Rows are numbered as in the code, from 0; a TLA+ sequence is indexed    *)
(* from 1, so row r of the list widget is element r + 1 of listWidget.     *)
(***************************************************************************)
EXTENDS Integers, Sequences, FiniteSets

\* ------------------------------------------------------------------ bounds
\* Spec: the whole application.
MaxItems == 2
MaxPages == 1
MaxTexts == 1
\* SpecEdit: one editor session after another.
EditItems == 1
EditTexts == 3
\* SpecList: the page list.
ListItems == 3
ListPages == 2
\* SpecExport: export_pdf.
ExItems == 3
ExPages == 2
ExTexts == 3
\* The files one file dialog returns.
MaxPick == 2

\* --------------------------------------------------------- program constants
direct_zoom == 2
DefaultPos == 50
DefaultFontSize == 12
PageHeight == 792

DefaultFont == "Helvetica"
DefaultText == "Double-click to edit"
Black == <<0, 0, 0>>

\* The files the user can pick, and a font family the font dialog offers that
\* the PDF canvas cannot resolve.
Paths == {"a.pdf", "b.pdf"}
Fonts == {"Helvetica", "Bogus"}
\* The font names canvas.setFont accepts without raising.
CanvasFonts == {"Helvetica"}

None == [kind |-> "none"]

VARIABLES
    listWidget,   \* the QListWidget's items, in row order
    currentRow,   \* listWidget.currentRow(), -1 when there is none
    dialog,       \* the open DirectTextDialog, or None
    exportState,  \* "Idle", "Running", "Completed", "Failed"
    pc,           \* the position of export_pdf: "idle", "loop", "write", "done"
    output,       \* the PdfWriter's pages of the running export
    warnings,     \* what the running export printed as errors
    last          \* the handler that ran last; after a move_down, and after
                  \* the move_up that follows it at once, the list and the
                  \* current row the move_down found

vars == <<listWidget, currentRow, dialog, exportState, pc, output, warnings,
          last>>

\* ---------------------------------------------------------------- helpers
Count(lw) == Len(lw)

Rows(lw) == 0 .. (Len(lw) - 1)

Reverse(s) == [i \in 1 .. Len(s) |-> s[Len(s) + 1 - i]]

RECURSIVE SumLen(_)
SumLen(lw) ==
    IF lw = <<>> THEN 0 ELSE Len(Head(lw).direct_texts) + SumLen(Tail(lw))

\* The state of the file system a handler finds: the page count of each
\* file, 0 for a file that cannot be opened.
\* a.pdf is a one-page document, b.pdf has up to n pages.
FsStates(n) == {fs \in [Paths -> 0 .. n] : fs["a.pdf"] <= 1}

\* What the file dialog of add_pdf can return: no file, or a list of files.
RECURSIVE SeqsUpTo(_, _)
SeqsUpTo(S, n) ==
    IF n = 0 THEN {<<>>}
    ELSE LET shorter == SeqsUpTo(S, n - 1)
         IN shorter \cup {Append(s, x) : s \in shorter, x \in S}

PathLists == SeqsUpTo(Paths, MaxPick)

\* The lists of direct texts of up to n texts, each in one of the fonts.
FontLists(n) == SeqsUpTo(Fonts, n)

\* ------------------------------------------------------------- data model
ItemText(path, page_number, added) ==
    [file |-> path, page |-> page_number + 1, added |-> added]

NewItem(path, i) ==
    [pdf_path |-> path, page_number |-> i, direct_texts |-> <<>>,
     text |-> ItemText(path, i, FALSE)]

\* pdf_reader.pages[page_number] / doc[page_number]: raises for a file that
\* cannot be opened and for an index past its last page.
Resolves(item, fs) == item.page_number < fs[item.pdf_path]

\* ----------------------------------------------------------- QListWidget
takeItem(lw, row) ==
    IF row \in Rows(lw)
    THEN [i \in 1 .. (Len(lw) - 1) |-> IF i <= row THEN lw[i] ELSE lw[i + 1]]
    ELSE lw

insertItem(lw, row, item) ==
    LET r == IF row < 0 THEN 0 ELSE IF row > Len(lw) THEN Len(lw) ELSE row
    IN [i \in 1 .. (Len(lw) + 1) |->
          IF i <= r THEN lw[i] ELSE IF i = r + 1 THEN item ELSE lw[i - 1]]


\* ------------------------------------------------------------- add_pdf
\* One pass of the loop over file_paths: the pages of one file, appended in
\* page order; nothing when convert_pdf_to_images raises.
\* AddPages numbering the pages from 1.
AddPagesOneBased(lw, path, fs) ==
    lw \o [i \in 1 .. fs[path] |-> NewItem(path, i)]

AddPages(lw, path, fs) ==
    lw \o [i \in 1 .. fs[path] |-> NewItem(path, i - 1)]

RECURSIVE add_pdf(_, _, _)
add_pdf(lw, file_paths, fs) ==
    IF file_paths = <<>> THEN lw
    ELSE add_pdf(AddPages(lw, Head(file_paths), fs), Tail(file_paths), fs)

\* ------------------------------------------------------ remove_selected
\* An item is an object: inside the handler it is known by the row it had
\* when the handler started.
Tagged(lw) == [i \in 1 .. Len(lw) |-> [idx |-> i - 1, item |-> lw[i]]]

Untagged(t) == [i \in 1 .. Len(t) |-> t[i].item]

\* listWidget.row(item): -1 for an item that is not in the list.
row(t, idx) ==
    IF \E i \in 1 .. Len(t) : t[i].idx = idx
    THEN (CHOOSE i \in 1 .. Len(t) : t[i].idx = idx) - 1
    ELSE -1

\* TakeSelected with the row the item had when the handler started.
TakeSelectedStale(t, idx) == takeItem(t, idx)

TakeSelected(t, idx) == takeItem(t, row(t, idx))

RECURSIVE TakeAll(_, _)
TakeAll(t, selected_items) ==
    IF selected_items = <<>> THEN t
    ELSE TakeAll(TakeSelected(t, Head(selected_items)), Tail(selected_items))

remove_selected(lw, selected_items) ==
    Untagged(TakeAll(Tagged(lw), selected_items))

\* selectedItems(): the selected items, each once, in the order Qt gives.
SelectionLists(lw) ==
    {s \in SeqsUpTo(Rows(lw), Len(lw)) :
        \A i, j \in 1 .. Len(s) : i # j => s[i] # s[j]}

\* The current row after the removal: Qt keeps the current item when it
\* stays, and makes another item current when it was taken.
CurrentAfterRemove(lw, cur, selected_items) ==
    LET t == TakeAll(Tagged(lw), selected_items)
    IN IF cur # -1 /\ row(t, cur) # -1 THEN {row(t, cur)}
       ELSE IF cur = -1 THEN {-1}
       ELSE IF Len(t) = 0 THEN {-1}
       ELSE 0 .. (Len(t) - 1)

\* ---------------------------------------------------- move_up / move_down
\* MoveTarget moving by two slots.
MoveTargetTwo(current_row, delta) == current_row + delta + delta

MoveTarget(current_row, delta) == current_row + delta

\* move_up putting the item at the top of the list.
move_up_top(lw, current_row) ==
    IF current_row > 0
    THEN [list |-> insertItem(takeItem(lw, current_row), 0, lw[current_row + 1]),
          row |-> 0]
    ELSE [list |-> lw, row |-> current_row]

move_up(lw, current_row) ==
    IF current_row > 0
    THEN [list |-> insertItem(takeItem(lw, current_row),
                              MoveTarget(current_row, -1), lw[current_row + 1]),
          row |-> MoveTarget(current_row, -1)]
    ELSE [list |-> lw, row |-> current_row]

move_down(lw, current_row) ==
    IF current_row < Count(lw) - 1 /\ current_row # -1
    THEN [list |-> insertItem(takeItem(lw, current_row),
                              MoveTarget(current_row, 1), lw[current_row + 1]),
          row |-> MoveTarget(current_row, 1)]
    ELSE [list |-> lw, row |-> current_row]

\* ------------------------------------------------------ DirectTextDialog
PixmapItem == [kind |-> "pixmap"]

DirectTextItem ==
    [kind |-> "text", text |-> DefaultText, x |-> DefaultPos, y |-> DefaultPos,
     font_family |-> DefaultFont, font_size |-> DefaultFontSize, color |-> Black]

NewDialog(r) ==
    [kind |-> "open", row |-> r, pdf_height |-> PageHeight,
     scene |-> <<PixmapItem>>]

\* scene.addItem: a new item is stacked above the items already there.
addItem(scene, item) == Append(scene, item)

removeItem(scene, k) == [i \in 1 .. (Len(scene) - 1) |->
                            IF i < k THEN scene[i] ELSE scene[i + 1]]

\* scene.items(): every item, in descending stacking order (topmost first).
SceneItems(scene) == Reverse(scene)

IsDirectText(item) == item.kind = "text"

TextDict(d, item) ==
    [text |-> item.text,
     x |-> item.x \div direct_zoom,
     y |-> d.pdf_height - (item.y \div direct_zoom),
     font_family |-> item.font_family,
     font_size |-> item.font_size,
     color |-> [i \in 1 .. 3 |-> item.color[i] \div 255]]

getDirectTexts(d) ==
    LET found == SelectSeq(SceneItems(d.scene), IsDirectText)
    IN [i \in 1 .. Len(found) |-> TextDict(d, found[i])]

\* The drafts of the scene, in the order they were created.
Drafts(scene) == SelectSeq(scene, IsDirectText)

\* The label open_direct_text_dialog gives the item on accept.
AcceptedText(item) == ItemText(item.pdf_path, item.page_number, TRUE)

\* AcceptItem adding the session's texts to those the item holds.
AcceptItemExtend(item, direct_texts) ==
    [item EXCEPT !.direct_texts = @ \o direct_texts, !.text = AcceptedText(item)]

AcceptItem(item, direct_texts) ==
    [item EXCEPT !.direct_texts = direct_texts, !.text = AcceptedText(item)]

\* ------------------------------------------------------------ export_pdf
\* The inner loop over direct_texts: an overlay whose font the canvas does
\* not know raises in setFont and is not drawn.
Draws(text_data) == text_data.font_family \in CanvasFonts

\* DrawTexts with the try around the whole loop: the first failure ends it.
RECURSIVE DrawTextsStop(_)
DrawTextsStop(direct_texts) ==
    IF direct_texts = <<>> \/ ~Draws(Head(direct_texts)) THEN <<>>
    ELSE <<Head(direct_texts)>> \o DrawTextsStop(Tail(direct_texts))

DrawTexts(direct_texts) == SelectSeq(direct_texts, Draws)

DrawWarnings(r, direct_texts) ==
    LET failed == SelectSeq([i \in 1 .. Len(direct_texts) |->
                                [kind |-> "draw", row |-> r, index |-> i,
                                 ok |-> Draws(direct_texts[i])]],
                            LAMBDA w : ~w.ok)
    IN [i \in 1 .. Len(failed) |->
          [kind |-> "draw", row |-> r, index |-> failed[i].index]]

ReadWarning(r) == [kind |-> "read", row |-> r, index |-> 0]

MergeWarning(r) == [kind |-> "merge", row |-> r, index |-> 0]

\* The page add_page receives for row r: the source page, with the canvas
\* merged onto it when there were direct texts and the merge did not raise.
OutPage(r, item, mergeOk) ==
    [row |-> r, pdf_path |-> item.pdf_path, page_number |-> item.page_number,
     canvas |-> IF item.direct_texts # <<>> THEN DrawTexts(item.direct_texts)
                ELSE <<>>,
     merged |-> item.direct_texts # <<>> /\ mergeOk]

\* ExportRow without its except branch: a page that cannot be read is added
\* like the others.
ExportRowNoSkip(acc, r, item, fs, mergeOk) ==
    [out |-> Append(acc.out, OutPage(r, item, mergeOk)), warn |-> acc.warn]

\* One pass of the loop over the rows.
ExportRow(acc, r, item, fs, mergeOk) ==
    IF ~Resolves(item, fs)
    THEN [out |-> acc.out, warn |-> Append(acc.warn, ReadWarning(r))]
    ELSE [out |-> Append(acc.out, OutPage(r, item, mergeOk)),
          warn |-> acc.warn
                   \o (IF item.direct_texts # <<>>
                       THEN DrawWarnings(r, item.direct_texts) ELSE <<>>)
                   \o (IF item.direct_texts # <<>> /\ ~mergeOk
                       THEN <<MergeWarning(r)>> ELSE <<>>)]

RECURSIVE ExportLoop(_, _, _, _, _)
ExportLoop(acc, i, lw, fs, mergeOk) ==
    IF i >= Count(lw) THEN acc
    ELSE ExportLoop(ExportRow(acc, i, lw[i + 1], fs, mergeOk), i + 1, lw, fs,
                    mergeOk)

\* WriteResult with the failure of the write swallowed.
WriteResultSwallowed(writeOk) == "Completed"

\* The state the run ends in: the except branch of the final write is the
\* only place export_pdf reports that the export failed.
WriteResult(writeOk) == IF writeOk THEN "Completed" ELSE "Failed"

\* ---------------------------------------------------------------- state
Init ==
    /\ listWidget = <<>>
    /\ currentRow = -1
    /\ dialog = None
    /\ exportState = "Idle"
    /\ pc = "idle"
    /\ output = <<>>
    /\ warnings = <<>>
    /\ last = [kind |-> "other"]

\* The main window takes an event only when no handler is running and the
\* modal dialog is closed.
Ready == dialog = None /\ exportState = "Idle"

NoExport == UNCHANGED <<exportState, pc, output, warnings>>

\* ------------------------------------------------------ the main window
\* The user clicks an item: it becomes the current item.
Click(r) ==
    /\ Ready
    /\ r \in Rows(listWidget)
    /\ currentRow' = r
    /\ last' = [kind |-> "other"]
    /\ UNCHANGED <<listWidget, dialog>>
    /\ NoExport

AddPdf(file_paths, fs, cap) ==
    /\ Ready
    /\ Len(add_pdf(listWidget, file_paths, fs)) <= cap
    /\ listWidget' = add_pdf(listWidget, file_paths, fs)
    /\ last' = [kind |-> "add_pdf"]
    /\ UNCHANGED <<currentRow, dialog>>
    /\ NoExport

RemoveSelected(selected_items) ==
    /\ Ready
    /\ listWidget' = remove_selected(listWidget, selected_items)
    /\ currentRow' \in CurrentAfterRemove(listWidget, currentRow, selected_items)
    /\ last' = [kind |-> "remove_selected"]
    /\ UNCHANGED dialog
    /\ NoExport

MoveUp ==
    /\ Ready
    /\ listWidget' = move_up(listWidget, currentRow).list
    /\ currentRow' = move_up(listWidget, currentRow).row
    /\ last' = IF last.kind = "move_down"
               THEN [last EXCEPT !.kind = "move_down_up"]
               ELSE [kind |-> "move_up"]
    /\ UNCHANGED dialog
    /\ NoExport

MoveDown ==
    /\ Ready
    /\ listWidget' = move_down(listWidget, currentRow).list
    /\ currentRow' = move_down(listWidget, currentRow).row
    /\ last' = [kind |-> "move_down", list |-> listWidget, row |-> currentRow]
    /\ UNCHANGED dialog
    /\ NoExport

\* ------------------------------------------------- the direct text dialog
\* A double click on item r. The dialog's constructor renders the page and
\* raises, opening nothing, when the page cannot be read.
OpenDialog(r, fs) ==
    /\ Ready
    /\ r \in Rows(listWidget)
    /\ dialog' = IF Resolves(listWidget[r + 1], fs) THEN NewDialog(r) ELSE None
    /\ last' = [kind |-> "other"]
    /\ UNCHANGED <<listWidget, currentRow>>
    /\ NoExport

\* The texts the other items hold plus the drafts of the scene.
TextsInUse ==
    SumLen(takeItem(listWidget, dialog.row)) + Len(Drafts(dialog.scene))

AddDirectTextItem(cap) ==
    /\ dialog # None
    /\ TextsInUse < cap
    /\ dialog' = [dialog EXCEPT !.scene = addItem(@, DirectTextItem)]
    /\ UNCHANGED <<listWidget, currentRow, last>>
    /\ NoExport

\* The context menu of scene item k: Change Font.
ChangeFont(k, family) ==
    /\ dialog # None
    /\ k \in 1 .. Len(dialog.scene)
    /\ IsDirectText(dialog.scene[k])
    /\ dialog' = [dialog EXCEPT !.scene[k].font_family = family]
    /\ UNCHANGED <<listWidget, currentRow, last>>
    /\ NoExport

\* The context menu of scene item k: Delete Text.
DeleteText(k) ==
    /\ dialog # None
    /\ k \in 1 .. Len(dialog.scene)
    /\ IsDirectText(dialog.scene[k])
    /\ dialog' = [dialog EXCEPT !.scene = removeItem(@, k)]
    /\ UNCHANGED <<listWidget, currentRow, last>>
    /\ NoExport

Accept ==
    /\ dialog # None
    /\ listWidget' = [listWidget EXCEPT ![dialog.row + 1] =
                          AcceptItem(@, getDirectTexts(dialog))]
    /\ dialog' = None
    /\ last' = [kind |-> "accept"]
    /\ UNCHANGED currentRow
    /\ NoExport

Reject ==
    /\ dialog # None
    /\ dialog' = None
    /\ last' = [kind |-> "reject"]
    /\ UNCHANGED <<listWidget, currentRow>>
    /\ NoExport

\* ------------------------------------------------------------ export_pdf
\* The save dialog returned a path: the writer is created.
ExportBegin ==
    /\ Ready
    /\ exportState' = "Running"
    /\ pc' = "loop"
    /\ output' = <<>>
    /\ warnings' = <<>>
    /\ last' = [kind |-> "export_pdf"]
    /\ UNCHANGED <<listWidget, currentRow, dialog>>

\* The save dialog was cancelled: export_pdf returns at once.
ExportCancel ==
    /\ Ready
    /\ last' = [kind |-> "other"]
    /\ UNCHANGED <<listWidget, currentRow, dialog>>
    /\ NoExport

\* The loop over the rows.
ExportPages(fs, mergeOk) ==
    /\ exportState = "Running" /\ pc = "loop"
    /\ LET res == ExportLoop([out |-> output, warn |-> warnings], 0,
                             listWidget, fs, mergeOk)
       IN /\ output' = res.out
          /\ warnings' = res.warn
    /\ pc' = "write"
    /\ UNCHANGED <<listWidget, currentRow, dialog, exportState, last>>

\* The final write.
ExportWrite(writeOk) ==
    /\ exportState = "Running" /\ pc = "write"
    /\ exportState' = WriteResult(writeOk)
    /\ pc' = "done"
    /\ last' = [kind |-> "export_pdf", written |-> writeOk]
    /\ UNCHANGED <<listWidget, currentRow, dialog, output, warnings>>

\* export_pdf returns: its writer goes with it.
ExportReturn ==
    /\ pc = "done"
    /\ exportState' = "Idle"
    /\ pc' = "idle"
    /\ output' = <<>>
    /\ warnings' = <<>>
    /\ last' = [kind |-> "other"]
    /\ UNCHANGED <<listWidget, currentRow, dialog>>

\* ------------------------------------------ Spec: the whole application
DoClick == \E r \in Rows(listWidget) : Click(r)

DoAddPdf == \E file_paths \in PathLists, fs \in FsStates(MaxPages) :
                AddPdf(file_paths, fs, MaxItems)

DoRemoveSelected == \E sel \in SelectionLists(listWidget) : RemoveSelected(sel)

DoOpenDialog == \E r \in Rows(listWidget), fs \in FsStates(MaxPages) :
                    OpenDialog(r, fs)

DoAddDirectTextItem == AddDirectTextItem(MaxTexts)

DoDeleteText == \E k \in 1 .. (MaxTexts + 1) : DeleteText(k)

DoExportPages == \E fs \in FsStates(MaxPages), mergeOk \in BOOLEAN :
                     ExportPages(fs, mergeOk)

DoExportWrite == \E writeOk \in BOOLEAN : ExportWrite(writeOk)

Next ==
    \/ DoClick
    \/ DoAddPdf
    \/ DoRemoveSelected
    \/ MoveUp
    \/ MoveDown
    \/ DoOpenDialog
    \/ DoAddDirectTextItem
    \/ DoDeleteText
    \/ Accept
    \/ Reject
    \/ ExportBegin
    \/ ExportCancel
    \/ DoExportPages
    \/ DoExportWrite
    \/ ExportReturn

Spec == Init /\ [][Next]_vars

\* --------------------------------- SpecEdit: one session after another
DoAddPdfEdit == \E file_paths \in PathLists, fs \in FsStates(MaxPages) :
                    AddPdf(file_paths, fs, EditItems)

DoAddDirectTextItemEdit == AddDirectTextItem(EditTexts)

DoChangeFont == \E k \in 1 .. (EditTexts + 1), family \in Fonts :
                    ChangeFont(k, family)

DoDeleteTextEdit == \E k \in 1 .. (EditTexts + 1) : DeleteText(k)

NextEdit ==
    \/ DoAddPdfEdit
    \/ DoOpenDialog
    \/ DoAddDirectTextItemEdit
    \/ DoChangeFont
    \/ DoDeleteTextEdit
    \/ Accept
    \/ Reject

SpecEdit == Init /\ [][NextEdit]_vars

\* ------------------------------------------------ lists the program reaches
\* The dialog on row r after one Add Direct Text and one Change Font per
\* entry of fonts.
DialogWith(r, fonts) ==
    [NewDialog(r) EXCEPT !.scene =
        <<PixmapItem>> \o [i \in 1 .. Len(fonts) |->
                              [DirectTextItem EXCEPT !.font_family = fonts[i]]]]

\* The list after such a session on row r was accepted.
Edited(lw, r, fonts) ==
    [lw EXCEPT ![r + 1] = AcceptItem(@, getDirectTexts(DialogWith(r, fonts)))]

\* The lists one add_pdf makes of an empty list.
AddedLists(cap, pages) ==
    {lw \in {add_pdf(<<>>, file_paths, fs) :
                file_paths \in PathLists, fs \in FsStates(pages)} :
        Len(lw) <= cap}

\* The same lists, and each of them after one accepted session on one row.
SeedLists(cap, pages, fontLists) ==
    AddedLists(cap, pages)
    \cup {Edited(lw, r, fonts) :
             <<lw, r>> \in {p \in AddedLists(cap, pages) \X (0 .. (cap - 1)) :
                              p[2] \in Rows(p[1])},
             fonts \in fontLists}

InitWith(lists) ==
    /\ listWidget \in lists
    /\ currentRow = -1
    /\ dialog = None
    /\ exportState = "Idle"
    /\ pc = "idle"
    /\ output = <<>>
    /\ warnings = <<>>
    /\ last = [kind |-> "other"]

\* ------------------------------------------------ SpecList: the page list
InitList == InitWith(SeedLists(ListItems, ListPages, {<<DefaultFont>>}))

DoAddPdfList == \E file_paths \in PathLists, fs \in FsStates(ListPages) :
                    AddPdf(file_paths, fs, ListItems)

NextList ==
    \/ DoClick
    \/ DoAddPdfList
    \/ DoRemoveSelected
    \/ MoveUp
    \/ MoveDown

SpecList == InitList /\ [][NextList]_vars

\* ------------------------------------------------ SpecExport: export_pdf
InitExport == InitWith(SeedLists(ExItems, ExPages, FontLists(ExTexts)))

DoExportPagesEx == \E fs \in FsStates(ExPages), mergeOk \in BOOLEAN :
                       ExportPages(fs, mergeOk)

NextExport ==
    \/ ExportBegin
    \/ ExportCancel
    \/ DoExportPagesEx
    \/ DoExportWrite
    \/ ExportReturn

SpecExport == InitExport /\ [][NextExport]_vars

\* =================================================================
\* Properties
\* =================================================================
\* The items of lw at the rows of keep, in row order.
RECURSIVE KeepRows(_, _, _)
KeepRows(lw, keep, r) ==
    IF r >= Len(lw) THEN <<>>
    ELSE (IF r \in keep THEN <<lw[r + 1]>> ELSE <<>>) \o KeepRows(lw, keep, r + 1)

Range(s) == {s[i] : i \in 1 .. Len(s)}

\* How often x occurs in s.
Occurrences(s, x) == Cardinality({i \in 1 .. Len(s) : s[i] = x})

SameEntries(s, t) ==
    /\ Len(s) = Len(t)
    /\ \A x \in Range(s) \cup Range(t) : Occurrences(s, x) = Occurrences(t, x)

\* lw with the items of rows r and q exchanged.
Swapped(lw, r, q) ==
    [i \in 1 .. Len(lw) |->
        IF i = r + 1 THEN lw[q + 1] ELSE IF i = q + 1 THEN lw[r + 1] ELSE lw[i]]

ReadWarningsFor(w, r) ==
    Cardinality({i \in 1 .. Len(w) : w[i].kind = "read" /\ w[i].row = r})

\* ------------------------------------------------------------------ C1
C1_After(fs) ==
    LET ok == {r \in Rows(listWidget) : Resolves(listWidget[r + 1], fs)}
    IN /\ Len(output') = Cardinality(ok)
       /\ \A i \in 1 .. Len(output') :
             /\ output'[i].row \in ok
             /\ output'[i].pdf_path = listWidget[output'[i].row + 1].pdf_path
             /\ output'[i].page_number
                    = listWidget[output'[i].row + 1].page_number
       /\ \A i, j \in 1 .. Len(output') :
             i < j => output'[i].row < output'[j].row
       /\ \A r \in Rows(listWidget) :
             ReadWarningsFor(warnings', r) = IF r \in ok THEN 0 ELSE 1
       /\ pc' = "write"

\* C1: export_pdf skips exactly the entries whose source page cannot be
\* read: the output holds one page for each entry that resolves, in the
\* order of the list, and one read warning is reported for each skipped
\* entry and none for the others.
C1_ExportSkipsUnreadable ==
    [][\A fs \in FsStates(ExPages), mergeOk \in BOOLEAN :
          ExportPages(fs, mergeOk) => C1_After(fs)]_vars

\* Three entries, one of them unreadable: a 2-page output, one warning, and
\* the run completed.
C1_Witness ==
    /\ exportState = "Completed"
    /\ Len(listWidget) = 3
    /\ Len(output) = 2
    /\ Len(warnings) = 1
    /\ warnings[1].kind = "read"
    /\ warnings[1].row = 1

\* ------------------------------------------------------------------ C2
C2_Steps ==
    /\ exportState = "Idle" => exportState' \in {"Idle", "Running"}
    /\ exportState = "Running"
          => exportState' \in {"Running", "Completed", "Failed"}
    /\ exportState \in {"Completed", "Failed"}
          => exportState' \in {exportState, "Idle"}

C3_After(delta) ==
    LET target == currentRow + delta
    IN IF currentRow # -1 /\ target \in Rows(listWidget)
       THEN /\ listWidget' = Swapped(listWidget, currentRow, target)
            /\ currentRow' = target
            /\ listWidget'[target + 1] = listWidget[currentRow + 1]
       ELSE /\ listWidget' = listWidget
            /\ currentRow' = currentRow

\* C3: move_up and move_down keep the entries of the list (the same
\* entries as often, each with its source, page and overlays); the current
\* entry moves by one slot, and a move that would leave the list, or a move
\* without a current row, does nothing.
C3_MoveKeepsEntries ==
    [][/\ MoveUp => C3_After(-1) /\ SameEntries(listWidget, listWidget')
       /\ MoveDown => C3_After(1) /\ SameEntries(listWidget, listWidget')]_vars

\* The last of three entries, one with overlays, was moved up to the middle.
C3_Witness ==
    /\ last.kind = "move_up"
    /\ Len(listWidget) = 3
    /\ currentRow = 1
    /\ listWidget[2].direct_texts # <<>>
    /\ listWidget[3].direct_texts = <<>>

\* ------------------------------------------------------------------ C4
\* C4 as stated: move_down at once followed by move_up on the same entry
\* restores the order of the list, whatever the entry's position.
C4_DownUpRestores ==
    (last.kind = "move_down_up" /\ last.row # -1) => listWidget = last.list

\* C4 as amended: move_down at once followed by move_up restores the order
\* and the current row for every entry that is not the last of a list of two
\* or more; on the last entry of such a list move_down does nothing and the
\* move_up then moves the entry up by one slot.
C4_DownUpRestoresBelowLast ==
    (last.kind = "move_down_up" /\ last.row # -1)
        => IF last.row < Len(last.list) - 1 \/ Len(last.list) = 1
           THEN listWidget = last.list /\ currentRow = last.row
           ELSE /\ listWidget = Swapped(last.list, last.row, last.row - 1)
                /\ currentRow = last.row - 1

\* The first of three entries went down and up again, past a different entry.
C4_Witness ==
    /\ last.kind = "move_down_up"
    /\ last.row = 0
    /\ Len(last.list) = 3
    /\ last.list[1] # last.list[2]
    /\ listWidget = last.list

\* ------------------------------------------------------------------ C5
\* s is t with some of its items left out.
RECURSIVE IsSubsequence(_, _)
IsSubsequence(s, t) ==
    IF s = <<>> THEN TRUE
    ELSE IF t = <<>> THEN FALSE
    ELSE IF Head(s) = Head(t) THEN IsSubsequence(Tail(s), Tail(t))
    ELSE IsSubsequence(s, Tail(t))

C5_AfterAccept ==
    LET r == dialog.row + 1
        drafts == Drafts(dialog.scene)
    IN /\ Len(listWidget') = Len(listWidget)
       /\ \A i \in 1 .. Len(listWidget) : i # r => listWidget'[i] = listWidget[i]
       /\ listWidget'[r].pdf_path = listWidget[r].pdf_path
       /\ listWidget'[r].page_number = listWidget[r].page_number
       /\ Len(listWidget'[r].direct_texts) = Len(drafts)
       /\ \A t \in Range(listWidget'[r].direct_texts) :
             \E d \in Range(drafts) : t = TextDict(dialog, d)
       /\ drafts = <<>> => listWidget'[r].direct_texts = <<>>

\* C5: the overlays of an entry change only when a session on that entry is
\* accepted: the accept replaces the entry's overlays by the session's texts
\* (by none when the session has no draft) and leaves the other entries as
\* they are; a rejected session, every step inside a session, a click and
\* every step of an export leave the list as it is; add_pdf keeps the
\* entries it finds, in place; remove_selected leaves out entries and keeps
\* the others, in order, as they are; a move keeps every entry as it is.
C5_OverlaysChangeOnlyOnAccept ==
    [][/\ Accept => C5_AfterAccept
       /\ (\/ Reject \/ DoOpenDialog \/ DoAddDirectTextItem \/ DoDeleteText
           \/ DoClick \/ ExportBegin \/ ExportCancel \/ DoExportPages
           \/ DoExportWrite \/ ExportReturn)
             => listWidget' = listWidget
       /\ DoAddPdf
             => /\ Len(listWidget') >= Len(listWidget)
                /\ SubSeq(listWidget', 1, Len(listWidget)) = listWidget
       /\ DoRemoveSelected => IsSubsequence(listWidget', listWidget)
       /\ (MoveUp \/ MoveDown) => SameEntries(listWidget, listWidget')]_vars

\* Two entries: the first holds a text, and a session without drafts was
\* accepted on the second.
C5_Witness ==
    /\ last.kind = "accept"
    /\ Len(listWidget) = 2
    /\ listWidget[1].direct_texts # <<>>
    /\ listWidget[2].direct_texts = <<>>
    /\ listWidget[2].text.added

\* ------------------------------------------------------------------ C6
\* C6: what the accept stores is one text per draft of the scene, in the
\* order in which the drafts were created.
C6_CommitInCreationOrder ==
    [][Accept =>
          listWidget'[dialog.row + 1].direct_texts
              = [i \in 1 .. Len(Drafts(dialog.scene)) |->
                    TextDict(dialog, Drafts(dialog.scene)[i])]]_vars

\* ------------------------------------------------------------------ C7
\* The texts of direct_texts the canvas can draw, in list order.
RECURSIVE Drawable(_)
Drawable(direct_texts) ==
    IF direct_texts = <<>> THEN <<>>
    ELSE (IF Head(direct_texts).font_family \in CanvasFonts
          THEN <<Head(direct_texts)>> ELSE <<>>) \o Drawable(Tail(direct_texts))

DrawWarningsFor(w, r) ==
    {w[i].index : i \in {j \in 1 .. Len(w) : w[j].kind = "draw" /\ w[j].row = r}}

C7_After(fs) ==
    \A r \in Rows(listWidget) :
        Resolves(listWidget[r + 1], fs)
            => /\ \E i \in 1 .. Len(output') :
                     /\ output'[i].row = r
                     /\ output'[i].canvas = Drawable(listWidget[r + 1].direct_texts)
               /\ DrawWarningsFor(warnings', r)
                     = {k \in 1 .. Len(listWidget[r + 1].direct_texts) :
                           listWidget[r + 1].direct_texts[k].font_family
                               \notin CanvasFonts}

\* C7: an overlay that cannot be drawn is the only thing left out: the
\* other overlays of the page are drawn, in list order, the page is added to
\* the output, and so is every later entry that resolves.
C7_DrawFailureSkipsOneOverlay ==
    [][\A fs \in FsStates(ExPages), mergeOk \in BOOLEAN :
          ExportPages(fs, mergeOk) => C7_After(fs)]_vars

\* A page whose second of three overlays failed: the first and the third
\* are on its canvas, and the entry after it is in the output too.
C7_Witness ==
    /\ pc = "write"
    /\ Len(listWidget) >= 2
    /\ Len(listWidget[1].direct_texts) = 3
    /\ listWidget[1].direct_texts[1].font_family = "Helvetica"
    /\ listWidget[1].direct_texts[2].font_family = "Bogus"
    /\ listWidget[1].direct_texts[3].font_family = "Helvetica"
    /\ Len(output) >= 2
    /\ output[1].row = 0
    /\ Len(output[1].canvas) = 2
    /\ output[1].merged
    /\ output[2].row = 1

\* ------------------------------------------------------------------ C8
\* The entries add_pdf appends for file_paths.
RECURSIVE C8_Added(_, _)
C8_Added(file_paths, fs) ==
    IF file_paths = <<>> THEN <<>>
    ELSE [i \in 1 .. fs[Head(file_paths)] |->
             [pdf_path |-> Head(file_paths), page_number |-> i - 1,
              direct_texts |-> <<>>,
              text |-> [file |-> Head(file_paths), page |-> i, added |-> FALSE]]]
         \o C8_Added(Tail(file_paths), fs)

\* C8: add_pdf appends, for each file it can read, one entry per page, with
\* page indices 0 .. n-1 in increasing order and no overlays, after the
\* entries of the list, which stay as they are; for a file it cannot read
\* it appends nothing.
C8_AddAppendsPages ==
    [][\A file_paths \in PathLists, fs \in FsStates(ListPages) :
          AddPdf(file_paths, fs, ListItems)
              => /\ listWidget' = listWidget \o C8_Added(file_paths, fs)
                 /\ (\A i \in 1 .. Len(file_paths) : fs[file_paths[i]] = 0)
                       => listWidget' = listWidget]_vars

\* An entry with overlays, and after it the two pages of one file, in page
\* order and without overlays.
C8_Witness ==
    /\ last.kind = "add_pdf"
    /\ Len(listWidget) = 3
    /\ listWidget[1].direct_texts # <<>>
    /\ listWidget[2].pdf_path = listWidget[1].pdf_path
    /\ listWidget[3].pdf_path = listWidget[1].pdf_path
    /\ listWidget[2].page_number = 0
    /\ listWidget[3].page_number = 1
    /\ listWidget[2].direct_texts = <<>>
    /\ listWidget[3].direct_texts = <<>>

\* ------------------------------------------------------------------ C9
\* C9: remove_selected takes the selected entries out of the list and
\* nothing else: the other entries stay, in order, as they are; taking the
\* same entries out once more changes nothing.
C9_RemoveTakesSelected ==
    [][\A sel \in SelectionLists(listWidget) :
          RemoveSelected(sel)
              => /\ listWidget'
                       = KeepRows(listWidget, Rows(listWidget) \ Range(sel), 0)
                 /\ Untagged(TakeAll(TakeAll(Tagged(listWidget), sel), sel))
                       = listWidget']_vars

\* All that is left is a second page, with its overlays.
C9_Witness ==
    /\ last.kind = "remove_selected"
    /\ Len(listWidget) = 1
    /\ listWidget[1].page_number = 1
    /\ listWidget[1].direct_texts # <<>>

\* ----------------------------------------------------------------- C10
\* C10: an item's label carries the "(Direct Text Added)" marker if and
\* only if the item has direct texts.
C10_MarkerIffOverlays ==
    \A i \in 1 .. Len(listWidget) :
        listWidget[i].text.added <=> listWidget[i].direct_texts # <<>>

====
